---- MODULE Spec2Model ----
(***************************************************************************)
(* Task lifecycle of the marketplace service in src/.old/main4.py.         *)
(*                                                                         *)
(* Every request handler runs in its own SQLAlchemy Session on a worker    *)
(* thread.  A handler first SELECTs the task row and tests it in Python,   *)
(* then assigns attributes and commits, which issues                       *)
(* "UPDATE tasks SET <changed columns> WHERE id = ?".  The SELECT and the  *)
(* UPDATE are separate statements, so each handler is two steps (query,    *)
(* commit) that interleave with the steps of the other handlers.           *)
(* complete_task has a third step, the Stripe call made after its commit.  *)
(***************************************************************************)
EXTENDS Integers, Sequences, FiniteSets, Bags, TLC

\* ---------------------------------------------------------------- bounds
MaxTasks == 1
MaxCalls == 2
MaxTime == 3

\* ------------------------------------------------------------- constants
\* a nullable Integer column holding no value (None); falsy like 0
NULL == 0
\* the expiration duration of the specification; the code names it
\* Task.completion_expiration_duration and defines it nowhere
ExpirationDuration == 1

UserIds == 1..3
\* the users who submit tasks
Requesters == {1, 3}
TaskIds == 1..MaxTasks
\* the price range of submitted tasks (scenario A: min_price 10, max_price 20)
MinPrices == {10}
MaxPrices == {20}

\* strings are sequences of one-character strings
Digits == <<"1", "2", "3", "4", "5", "6", "7", "8", "9">>

\* str(n) for a one-digit positive id
Str(n) == <<Digits[n]>>

\* s.split(","): the pieces between commas, "" giving [""]
RECURSIVE Split(_)
Split(s) ==
  IF \A i \in 1..Len(s) : s[i] # ","
  THEN <<s>>
  ELSE LET k == CHOOSE i \in 1..Len(s) :
                  s[i] = "," /\ \A j \in 1..(i - 1) : s[j] # ","
       IN <<SubSeq(s, 1, k - 1)>> \o Split(SubSeq(s, k + 1, Len(s)))

\* x in list
InList(x, l) == \E i \in 1..Len(l) : l[i] = x

\* the users table; no handler changes blocked_user_ids or min_task_price.
\* User 1 takes no task under 15, user 2 has blocked users 2 and 3 ("2,3")
\* and takes tasks from 5, user 3 takes any task.
users ==
  [u \in UserIds |->
     CASE u = 1 -> [blocked_user_ids |-> << >>, min_task_price |-> 15]
       [] u = 2 -> [blocked_user_ids |-> <<"2", ",", "3">>, min_task_price |-> 5]
       [] u = 3 -> [blocked_user_ids |-> << >>, min_task_price |-> 0]]

VARIABLES
  tasks,      \* the tasks table: row i is the task with id i
  pending,    \* bag of the requests between their SELECT and their return
  responses,  \* bag of the responses returned to callers
  captures,   \* per task id, the stripe.PaymentIntent.create calls made
  now,        \* time.time_ns()
  printed,    \* the distinct lines check_expired_tasks has printed
  messages,   \* the messages table: row i is the message with id i
  reply       \* what the last GET request returned

vars == <<tasks, pending, responses, captures, now, printed, messages, reply>>

\* Task.status
Status(task) ==
  IF task.canceled_time_ns # NULL THEN "canceled"
  ELSE IF task.completed_time_ns # NULL THEN "completed"
  ELSE IF task.accepted_time_ns # NULL THEN "accepted"
  ELSE "unassigned"

\* db.query(Task).filter(Task.id == task_id).first() found a row
Exists(t) == t \in 1..Len(tasks)

\* a request of user u on task t that passed its tests and is at step pc
Request(op, u, t, pc) == [op |-> op, user |-> u, task_id |-> t, pc |-> pc]

\* a response: the HTTP status code and, for an error, its detail
Response(op, u, t, status_code, detail) ==
  [op |-> op, user |-> u, task_id |-> t,
   status_code |-> status_code, detail |-> detail]

\* "return task.id"
Ok(op, u, t) == Response(op, u, t, 200, "")

\* a handler's "except Exception as e: db.rollback(); raise
\* HTTPException(status_code=500, detail=str(e))" catches the HTTPException
\* the handler itself raised in its try block: whatever the inner status
\* code, the response is a 500 whose detail is the text of the inner one
Raise(op, u, t, inner) == Response(op, u, t, 500, inner)

\* no GET request has been answered yet
NoReply == [op |-> "", status_code |-> 0, detail |-> "", body |-> << >>]

\* requests begun so far
Begun == BagCardinality(pending) + BagCardinality(responses)

\* a row of the tasks table
Task(requester, executor, min_price, max_price, submitted, accepted) ==
  [requested_by_id |-> requester, executed_by_id |-> executor,
   min_price |-> min_price, max_price |-> max_price,
   submitted_time_ns |-> submitted, accepted_time_ns |-> accepted,
   completed_time_ns |-> NULL, canceled_time_ns |-> NULL]

\* create_engine("sqlite:///./database.db"): the tasks table is a file that
\* outlives the process, and create_all keeps its rows.  At start it is
\* empty or holds what an earlier run left: here one task of user 1,
\* still unassigned or accepted by user 2.
StoresAtStart ==
  { << >>,
    <<Task(1, NULL, 10, 20, 1, NULL)>>,
    <<Task(1, 2, 10, 20, 1, 1)>> }

Init ==
  /\ tasks \in StoresAtStart
  /\ pending = EmptyBag
  /\ responses = EmptyBag
  /\ captures = [t \in TaskIds |-> 0]
  /\ now = 1
  /\ printed = {}
  /\ messages = << >>
  /\ reply = NoReply

\* the clock advances
Tick ==
  /\ now < MaxTime
  /\ now' = now + 1
  /\ UNCHANGED <<tasks, pending, responses, captures, printed, messages, reply>>

\* POST /tasks
create_task(u, min_price, max_price) ==
  /\ Len(tasks) < MaxTasks
  /\ tasks' = Append(tasks, Task(u, NULL, min_price, max_price, now, NULL))
  /\ UNCHANGED <<pending, responses, captures, now, printed, messages, reply>>

\* a handler that assigns before it tests and commits what it assigned
QueryAssignsFirst(op, u, t, denial) ==
  /\ Begun < MaxCalls
  /\ IF denial # ""
     THEN /\ responses' = responses (+) SetToBag({Raise(op, u, t, denial)})
          /\ tasks' = IF Exists(t)
                      THEN [tasks EXCEPT ![t] = [@ EXCEPT !.executed_by_id = u]]
                      ELSE tasks
          /\ UNCHANGED pending
     ELSE /\ pending' = pending (+) SetToBag({Request(op, u, t, "commit")})
          /\ UNCHANGED <<responses, tasks>>
  /\ UNCHANGED <<captures, now, printed, messages, reply>>

\* the SELECT of a handler and the tests on the row it returned: the
\* request either fails with the first HTTPException raised (denial) or
\* goes on to its assignments
Query(op, u, t, denial) ==
  /\ Begun < MaxCalls
  /\ IF denial # ""
     THEN /\ responses' = responses (+) SetToBag({Raise(op, u, t, denial)})
          /\ UNCHANGED pending
     ELSE /\ pending' = pending (+) SetToBag({Request(op, u, t, "commit")})
          /\ UNCHANGED responses
  /\ UNCHANGED <<tasks, captures, now, printed, messages, reply>>

\* str(task.requested_by_id) in current_user.blocked_user_ids.split(",")
Blocked(u, t) ==
  InList(Str(tasks[t].requested_by_id), Split(users[u].blocked_user_ids))

\* task.min_price < current_user.min_task_price
BelowMinimum(u, t) == tasks[t].min_price < users[u].min_task_price

\* the HTTPException accept_task raises on the row it read, "" if none
AcceptDenial(u, t) ==
  IF ~Exists(t) THEN "404: The task does not exist"
  ELSE IF Status(tasks[t]) # "unassigned" THEN "400: The task is not unassigned"
  ELSE IF Blocked(u, t) THEN "403: You have blocked the requester of this task"
  ELSE IF BelowMinimum(u, t) THEN "403: The task price is below your minimum"
  ELSE ""

\* PUT /tasks/{task_id}/accept, up to the last test
accept_task_query(u, t) == Query("accept", u, t, AcceptDenial(u, t))

\* an accept that records the time and forgets the executor
accept_task_commit_NoExecutor(u, t) ==
  /\ BagIn(Request("accept", u, t, "commit"), pending)
  /\ tasks' = [tasks EXCEPT ![t] = [@ EXCEPT !.accepted_time_ns = now]]
  /\ pending' = pending (-) SetToBag({Request("accept", u, t, "commit")})
  /\ responses' = responses (+) SetToBag({Ok("accept", u, t)})
  /\ UNCHANGED <<captures, now, printed, messages, reply>>

\* PUT /tasks/{task_id}/accept: the assignments, db.commit() (an UPDATE of
\* the two assigned columns WHERE id = task_id) and the return
accept_task_commit(u, t) ==
  /\ BagIn(Request("accept", u, t, "commit"), pending)
  /\ tasks' = [tasks EXCEPT ![t] =
       [@ EXCEPT !.accepted_time_ns = now, !.executed_by_id = u]]
  /\ pending' = pending (-) SetToBag({Request("accept", u, t, "commit")})
  /\ responses' = responses (+) SetToBag({Ok("accept", u, t)})
  /\ UNCHANGED <<captures, now, printed, messages, reply>>

\* the HTTPException cancel_task raises on the row it read, "" if none
CancelDenial(u, t) ==
  IF ~Exists(t) THEN "404: The task does not exist"
  ELSE IF Status(tasks[t]) # "accepted" THEN "400: The task is not in progress"
  ELSE IF u # tasks[t].requested_by_id
       THEN "403: Only the task requester can cancel the task"
  ELSE ""

\* PUT /tasks/{task_id}/cancel, up to the last test
cancel_task_query(u, t) == Query("cancel", u, t, CancelDenial(u, t))

\* PUT /tasks/{task_id}/cancel: the assignment, db.commit() (an UPDATE of
\* canceled_time_ns WHERE id = task_id) and the return
cancel_task_commit(u, t) ==
  /\ BagIn(Request("cancel", u, t, "commit"), pending)
  /\ tasks' = [tasks EXCEPT ![t] = [@ EXCEPT !.canceled_time_ns = now]]
  /\ pending' = pending (-) SetToBag({Request("cancel", u, t, "commit")})
  /\ responses' = responses (+) SetToBag({Ok("cancel", u, t)})
  /\ UNCHANGED <<captures, now, printed, messages, reply>>

\* the HTTPException complete_task raises on the row it read, "" if none
CompleteDenial(u, t) ==
  IF ~Exists(t) THEN "404: The task does not exist"
  ELSE IF Status(tasks[t]) # "accepted" THEN "400: The task is not in progress"
  ELSE IF u # tasks[t].executed_by_id
       THEN "403: Only the task executor can complete the task"
  ELSE ""

\* PUT /tasks/{task_id}/complete, up to the last test
complete_task_query(u, t) == Query("complete", u, t, CompleteDenial(u, t))

\* PUT /tasks/{task_id}/complete: the assignment and db.commit() (an UPDATE
\* of completed_time_ns WHERE id = task_id); the Stripe call is still to come
complete_task_commit(u, t) ==
  /\ BagIn(Request("complete", u, t, "commit"), pending)
  /\ tasks' = [tasks EXCEPT ![t] = [@ EXCEPT !.completed_time_ns = now]]
  /\ pending' = (pending (-) SetToBag({Request("complete", u, t, "commit")}))
                  (+) SetToBag({Request("complete", u, t, "capture")})
  /\ UNCHANGED <<responses, captures, now, printed, messages, reply>>

\* a failed capture that undoes the completion
CaptureFailedReverts(t) ==
  [tasks EXCEPT ![t] = [@ EXCEPT !.completed_time_ns = NULL]]

\* the tasks table after the except-branch of complete_task that follows a
\* StripeError: db.rollback() finds nothing to undo, the commit was made
CaptureFailed(t) == tasks

\* PUT /tasks/{task_id}/complete: stripe.PaymentIntent.create either
\* returns (paid) or raises StripeError, whose HTTPException(400) the outer
\* except turns into a 500 like any other
complete_task_capture(u, t, paid) ==
  /\ BagIn(Request("complete", u, t, "capture"), pending)
  /\ captures' = [captures EXCEPT ![t] = @ + 1]
  /\ pending' = pending (-) SetToBag({Request("complete", u, t, "capture")})
  /\ IF paid
     THEN /\ responses' = responses (+) SetToBag({Ok("complete", u, t)})
          /\ UNCHANGED tasks
     ELSE /\ responses' = responses
               (+) SetToBag({Raise("complete", u, t, "400: Payment failed")})
          /\ tasks' = CaptureFailed(t)
  /\ UNCHANGED <<now, printed, messages, reply>>

\* what one run of check_expired_tasks at time t makes of the tasks table,
\* and whether it printed an error.  Building the filter evaluates
\* Task.completion_expiration_duration, an attribute the Task class does
\* not have: AttributeError is raised before any row is read, and the
\* except branch rolls back and prints it.  No run selects or changes a
\* task, whatever the table holds.
Sweep(store, t) == [tasks |-> store, error |-> TRUE]

\* the scheduler's job: check_expired_tasks(next(get_db()))
check_expired_tasks ==
  /\ tasks' = Sweep(tasks, now).tasks
  /\ printed' = IF Sweep(tasks, now).error
                THEN printed \cup {"Error checking expired tasks"}
                ELSE printed
  /\ UNCHANGED <<pending, responses, captures, now, messages, reply>>

Next ==
  \/ Tick
  \/ \E u \in Requesters, lo \in MinPrices, hi \in MaxPrices : create_task(u, lo, hi)
  \/ \E u \in UserIds, t \in TaskIds : accept_task_query(u, t)
  \/ \E u \in UserIds, t \in TaskIds : accept_task_commit(u, t)
  \/ \E u \in UserIds, t \in TaskIds : cancel_task_query(u, t)
  \/ \E u \in UserIds, t \in TaskIds : cancel_task_commit(u, t)
  \/ \E u \in UserIds, t \in TaskIds : complete_task_query(u, t)
  \/ \E u \in UserIds, t \in TaskIds : complete_task_commit(u, t)
  \/ \E u \in UserIds, t \in TaskIds, paid \in BOOLEAN :
       complete_task_capture(u, t, paid)
  \/ check_expired_tasks

Spec == Init /\ [][Next]_vars

\* ------------------------------------------------- the expiration sweep
\* The scheduler's job beside the requester's cancel_task, on a tasks table
\* in which earlier runs left two Accepted tasks.
SweepStoresAtStart ==
  { <<Task(1, 2, 10, 20, 1, 1)>>,
    <<Task(1, 2, 10, 20, 1, 1), Task(1, 3, 10, 20, 1, 1)>> }

InitSweep ==
  /\ tasks \in SweepStoresAtStart
  /\ pending = EmptyBag
  /\ responses = EmptyBag
  /\ captures = [t \in TaskIds |-> 0]
  /\ now = 1
  /\ printed = {}
  /\ messages = << >>
  /\ reply = NoReply

NextSweep ==
  \/ Tick
  \/ \E u \in UserIds, t \in 1..Len(tasks) : cancel_task_query(u, t)
  \/ \E u \in UserIds, t \in 1..Len(tasks) : cancel_task_commit(u, t)
  \/ check_expired_tasks

SpecSweep == InitSweep /\ [][NextSweep]_vars

\* ----------------------------------------------------- message threads
\* a column of type String holding no value
None == "None"

\* the text_content of the requests
Texts == {"hello"}

\* image_url: the S3 address of the uploaded object
ImageUrl == "https://bucket.s3.amazonaws.com/task_message.jpg"

\* a row of the messages table
Message(t, u, text, image_url) ==
  [task_id |-> t, sender_id |-> u, text |-> text, image_url |-> image_url]

\* the tests of a message handler that forgets the one on task.status
PostDenialNoStatusTest(u, t) ==
  IF ~Exists(t) THEN "404: The task does not exist"
  ELSE IF u # tasks[t].requested_by_id /\ u # tasks[t].executed_by_id
       THEN "403: You are not authorized to add messages to this task"
  ELSE ""

\* the HTTPException add_text_message_to_task and add_image_message_to_task
\* raise on the row they read, "" if none
PostDenial(u, t) ==
  IF ~Exists(t) THEN "404: The task does not exist"
  ELSE IF Status(tasks[t]) # "accepted" THEN "400: The task is not in progress"
  ELSE IF u # tasks[t].requested_by_id /\ u # tasks[t].executed_by_id
       THEN "403: You are not authorized to add messages to this task"
  ELSE ""

\* POST /tasks/{task_id}/messages/text, up to the last test
add_text_message_query(u, t) == Query("text", u, t, PostDenial(u, t))

\* POST /tasks/{task_id}/messages/text: the INSERT, db.commit() and return
add_text_message_commit(u, t, text) ==
  /\ BagIn(Request("text", u, t, "commit"), pending)
  /\ messages' = Append(messages, Message(t, u, text, None))
  /\ pending' = pending (-) SetToBag({Request("text", u, t, "commit")})
  /\ responses' = responses (+) SetToBag({Ok("text", u, t)})
  /\ UNCHANGED <<tasks, captures, now, printed, reply>>

\* POST /tasks/{task_id}/messages/image, up to the last test
add_image_message_query(u, t) == Query("image", u, t, PostDenial(u, t))

\* POST /tasks/{task_id}/messages/image: s3.upload_fileobj either returns
\* (uploaded), and the message is inserted and committed, or raises, and
\* the except branch answers 500 with nothing stored
add_image_message_commit(u, t, uploaded) ==
  /\ BagIn(Request("image", u, t, "commit"), pending)
  /\ pending' = pending (-) SetToBag({Request("image", u, t, "commit")})
  /\ IF uploaded
     THEN /\ messages' = Append(messages, Message(t, u, None, ImageUrl))
          /\ responses' = responses (+) SetToBag({Ok("image", u, t)})
     ELSE /\ UNCHANGED messages
          /\ responses' = responses
               (+) SetToBag({Raise("image", u, t, "S3 upload failed")})
  /\ UNCHANGED <<tasks, captures, now, printed, reply>>

\* the smaller of two numbers
Min(a, b) == IF a < b THEN a ELSE b

\* query.offset(k): the rows after the first k
Offset(rows, k) == SubSeq(rows, Min(k, Len(rows)) + 1, Len(rows))

\* query.limit(n): the first n rows
Limit(rows, n) == SubSeq(rows, 1, Min(n, Len(rows)))

\* the ids 1..n in order
Ids(n) == [i \in 1..n |-> i]

\* db.query(Message).filter(Message.task_id == task_id): the ids of the
\* task's messages, in the order of the table
MessagesOf(t) ==
  LET OfTask(i) == messages[i].task_id = t
  IN SelectSeq(Ids(Len(messages)), OfTask)

\* the default of the end parameter: no end was given
NoEnd == -1

\* the range arguments of GET /tasks/{task_id}/messages: start from 0,
\* end absent (NoEnd) or not before start
Starts == 0..1
Ends == {NoEnd} \cup (0..2)

\* get_messages_for_task: the status code and the ids of the messages
\* returned.  "if end:" takes end = 0 for an absent end.
GetMessages(u, t, start, end) ==
  IF ~Exists(t)
  THEN [status_code |-> 500, detail |-> "404: The task does not exist", body |-> << >>]
  ELSE IF u # tasks[t].requested_by_id /\ u # tasks[t].executed_by_id
  THEN [status_code |-> 500,
        detail |-> "403: You are not authorized to view messages for this task",
        body |-> << >>]
  ELSE [status_code |-> 200, detail |-> "",
        body |-> IF end # NoEnd /\ end # 0
                 THEN Limit(Offset(MessagesOf(t), start), end - start)
                 ELSE Offset(MessagesOf(t), start)]

\* GET /tasks/{task_id}/messages
get_messages_for_task(u, t, start, end) ==
  /\ end = NoEnd \/ start <= end
  /\ reply' = [op |-> "messages"] @@ GetMessages(u, t, start, end)
  /\ UNCHANGED <<tasks, pending, responses, captures, now, printed, messages>>

\* one-digit text as SQLite's numeric affinity reads it, NULL for other text
Num(piece) ==
  IF Len(piece) = 1 /\ \E n \in 1..Len(Digits) : Digits[n] = piece[1]
  THEN CHOOSE n \in 1..Len(Digits) : Digits[n] = piece[1]
  ELSE NULL

\* current_user.blocked_user_ids.split(",") if current_user.blocked_user_ids
\* else []
BlockedList(u) ==
  IF users[u].blocked_user_ids = << >> THEN << >>
  ELSE Split(users[u].blocked_user_ids)

\* Task.requested_by_id.not_in(blocked_user_ids) on row i
NotIn(i, l) == \A k \in 1..Len(l) : Num(l[k]) # tasks[i].requested_by_id

\* the filter get_available_tasks builds for query.status on row i
StatusFilter(i, status) ==
  CASE status = "unassigned" ->
         /\ tasks[i].accepted_time_ns = NULL
         /\ tasks[i].completed_time_ns = NULL
         /\ tasks[i].canceled_time_ns = NULL
    [] status = "accepted" ->
         /\ tasks[i].accepted_time_ns # NULL
         /\ tasks[i].completed_time_ns = NULL
         /\ tasks[i].canceled_time_ns = NULL
    [] status = "completed" -> tasks[i].completed_time_ns # NULL
    [] status = "canceled" -> tasks[i].canceled_time_ns # NULL
    [] OTHER -> TRUE

\* the arguments of GET /tasks: a status or none, a page
Statuses == {"unassigned", "accepted", "completed", "canceled"}
StatusQueries == Statuses \cup {None}
Skips == 0..1
Limits == {1, 100}

\* get_available_tasks: the ids of the tasks returned
ListTasks(u, status, requested_by_id, executed_by_id, skip, limit) ==
  LET Match(i) ==
        /\ StatusFilter(i, status)
        /\ requested_by_id # NULL => tasks[i].requested_by_id = requested_by_id
        /\ executed_by_id # NULL => tasks[i].executed_by_id = executed_by_id
        /\ NotIn(i, BlockedList(u))
  IN Limit(Offset(SelectSeq(Ids(Len(tasks)), Match), skip), limit)

\* GET /tasks
get_available_tasks(u, status, requested_by_id, executed_by_id, skip, limit) ==
  /\ reply' = [op |-> "tasks", status_code |-> 200, detail |-> "",
               body |-> ListTasks(u, status, requested_by_id, executed_by_id,
                                  skip, limit)]
  /\ UNCHANGED <<tasks, pending, responses, captures, now, printed, messages>>

\* The two parties' messages and GET /tasks/{task_id}/messages beside
\* accept_task, cancel_task and complete_task, on the tasks table as it is
\* at start.
NextMessages ==
  \/ \E u \in UserIds, t \in TaskIds : accept_task_query(u, t)
  \/ \E u \in UserIds, t \in TaskIds : accept_task_commit(u, t)
  \/ \E u \in UserIds, t \in TaskIds : cancel_task_query(u, t)
  \/ \E u \in UserIds, t \in TaskIds : cancel_task_commit(u, t)
  \/ \E u \in UserIds, t \in TaskIds : complete_task_query(u, t)
  \/ \E u \in UserIds, t \in TaskIds : complete_task_commit(u, t)
  \/ \E u \in UserIds, t \in TaskIds, paid \in BOOLEAN :
       complete_task_capture(u, t, paid)
  \/ \E u \in UserIds, t \in TaskIds : add_text_message_query(u, t)
  \/ \E u \in UserIds, t \in TaskIds, text \in Texts :
       add_text_message_commit(u, t, text)
  \/ \E u \in UserIds, t \in TaskIds : add_image_message_query(u, t)
  \/ \E u \in UserIds, t \in TaskIds, uploaded \in BOOLEAN :
       add_image_message_commit(u, t, uploaded)
  \/ \E u \in UserIds, t \in TaskIds, start \in Starts, end \in Ends :
       get_messages_for_task(u, t, start, end)

SpecMessages == Init /\ [][NextMessages]_vars

\* GET /tasks beside the handlers that write the tasks table.
NextListing ==
  \/ \E u \in Requesters, lo \in MinPrices, hi \in MaxPrices : create_task(u, lo, hi)
  \/ \E u \in UserIds, t \in TaskIds : accept_task_query(u, t)
  \/ \E u \in UserIds, t \in TaskIds : accept_task_commit(u, t)
  \/ \E u \in UserIds, t \in TaskIds : cancel_task_query(u, t)
  \/ \E u \in UserIds, t \in TaskIds : cancel_task_commit(u, t)
  \/ \E u \in UserIds, t \in TaskIds : complete_task_query(u, t)
  \/ \E u \in UserIds, t \in TaskIds : complete_task_commit(u, t)
  \/ \E u \in UserIds, t \in TaskIds, paid \in BOOLEAN :
       complete_task_capture(u, t, paid)
  \/ \E u \in UserIds, status \in StatusQueries, r \in {NULL, 1}, e \in {NULL, 2},
        skip \in Skips, limit \in Limits :
       get_available_tasks(u, status, r, e, skip, limit)

SpecListing == Init /\ [][NextListing]_vars

\* ------------------------------------------------------------ properties

\* the calls of op on task t that returned success
Succeeded(op, t) ==
  {r \in DOMAIN responses : r.op = op /\ r.task_id = t /\ r.status_code = 200}

\* the calls that failed because the Stripe call raised
CaptureFailures == {r \in DOMAIN responses : r.detail = "400: Payment failed"}

\* the calls that failed one of the handler's tests (task missing, state
\* precondition unmet, caller not allowed)
TestFailures ==
  {r \in DOMAIN responses : r.status_code # 200 /\ r.detail # "400: Payment failed"}

\* C1: of the accept_task calls that distinct eligible executors make on
\* one Unassigned task, at most one returns success, however they
\* interleave: no task has successful claims of two executors.
C1_AtMostOneClaimSucceeds ==
  \A t \in TaskIds : Cardinality({r.user : r \in Succeeded("accept", t)}) <= 1

\* C2: in every reachable state every task has at most one of
\* completed_time and canceled_time set.
C2_CompletedXorCanceled ==
  \A i \in 1..Len(tasks) :
    ~(tasks[i].completed_time_ns # NULL /\ tasks[i].canceled_time_ns # NULL)

\* C3: when complete_task and cancel_task race on one Accepted task, only
\* one of the two returns success: no task has both a successful cancel and
\* a successful complete.
C3_CompleteCancelOneWinner ==
  \A t \in TaskIds :
    ~(Succeeded("cancel", t) # {} /\ Succeeded("complete", t) # {})

\* C4: once complete_task has committed and its capture has failed, the
\* task's completed_time stays set in the store: the failure path does not
\* clear it and the task is never Accepted (or Unassigned) again.
C4_CaptureFailureKeepsCompletion ==
  \A r \in CaptureFailures :
    /\ Exists(r.task_id)
    /\ tasks[r.task_id].completed_time_ns # NULL
    /\ Status(tasks[r.task_id]) \notin {"accepted", "unassigned"}

\* a complete_task call has returned after a failed capture
C4_Witness == CaptureFailures # {}

\* the status codes of the other error kinds: NotFound 404, InvalidTransition
\* 400, Unauthorized 403, InternalError 500
OtherErrorCodes == {404, 400, 403, 500}

\* C5: the response of a complete_task call whose capture failed is an
\* error of its own kind: its status code is none of NotFound's,
\* InvalidTransition's, Unauthorized's or the generic InternalError's.
C5_CaptureFailureIsDistinct ==
  \A r \in CaptureFailures :
    r.status_code # 200 /\ r.status_code \notin OtherErrorCodes

\* C6: cancel_task makes its transition (and returns success) only when
\* the caller is the task's requester and the task is Accepted;
\* complete_task makes its transition only when the caller is the task's
\* executor and the task is Accepted.
C6_TransitionsOnlyFromAccepted ==
  [][\A u \in UserIds, t \in TaskIds :
       /\ cancel_task_commit(u, t) =>
            Status(tasks[t]) = "accepted" /\ u = tasks[t].requested_by_id
       /\ complete_task_commit(u, t) =>
            Status(tasks[t]) = "accepted" /\ u = tasks[t].executed_by_id]_vars

\* C7: an accept_task call on an existing task, in any state, whose
\* requester the caller has blocked or whose min_price is below the
\* caller's min_task_price, is answered with EligibilityDenied (403).
C7_IneligibleClaimIsDenied ==
  \A r \in DOMAIN responses :
    (r.op = "accept" /\ Exists(r.task_id)
       /\ (Blocked(r.user, r.task_id) \/ BelowMinimum(r.user, r.task_id)))
    => r.status_code = 403

\* C8: a step in which an accept, cancel or complete call fails one of its
\* tests (task missing, wrong state, caller not allowed) leaves the tasks
\* table as it was: every field of every task is unchanged.
C8_FailedCallChangesNoTask ==
  [][(\E r \in DOMAIN responses' :
        /\ r.status_code # 200 /\ r.detail # "400: Payment failed"
        /\ CopiesIn(r, responses') > CopiesIn(r, responses))
     => tasks' = tasks]_vars

\* a call on an existing task has failed one of its tests
C8_Witness == \E r \in TestFailures : Exists(r.task_id)

\* task i is Accepted and past its deadline at time t
Expired(i, t) ==
  /\ Status(tasks[i]) = "accepted"
  /\ tasks[i].accepted_time_ns + ExpirationDuration < t

\* C9: one run of the sweep at time now sets canceled_time on exactly the
\* Accepted tasks with accepted_time + ExpirationDuration < now and leaves
\* every other task as it was.
C9_SweepCancelsExactlyExpired ==
  \A i \in 1..Len(tasks) :
    IF Expired(i, now)
    THEN Sweep(tasks, now).tasks[i] = [tasks[i] EXCEPT !.canceled_time_ns = now]
    ELSE Sweep(tasks, now).tasks[i] = tasks[i]

\* C10: where the sweep has a task to expire, a second run made right after
\* the first leaves the tasks table as the first run left it, the
\* canceled_time the first run set included, and reports no error.
C10_SecondSweepIsNoOp ==
  (\E i \in 1..Len(tasks) : Expired(i, now)) =>
    LET once == Sweep(tasks, now)
        twice == Sweep(once.tasks, now)
    IN twice.tasks = once.tasks /\ ~twice.error

\* C11: a failure while the sweep expires one task does not keep it from
\* expiring the others: after a run that met an error, at most the one task
\* it failed on is still Accepted and past its deadline; every other such
\* task has canceled_time set.
C11_SweepFailureSparesOthers ==
  LET after == Sweep(tasks, now)
  IN after.error =>
       Cardinality({i \in 1..Len(tasks) :
                      Expired(i, now) /\ after.tasks[i].canceled_time_ns = NULL}) <= 1

\* the message a step appended to the messages table
Appended == messages'[Len(messages')]

\* the step appended one message
Appends == Len(messages') = Len(messages) + 1 /\ SubSeq(messages', 1, Len(messages)) = messages

\* user u is the requester or the executor of task t
Party(u, t) == u = tasks[t].requested_by_id \/ u = tasks[t].executed_by_id

\* a message request of user u on task t passed its tests in this step
PostAdmitted(u, t) ==
  \E op \in {"text", "image"} :
    CopiesIn(Request(op, u, t, "commit"), pending')
      > CopiesIn(Request(op, u, t, "commit"), pending)

\* C12 as stated: a message is stored only when, at that moment, the task
\* exists, is Accepted and the sender is its requester or executor; in
\* every other case the messages table is unchanged.
C12_MessageOnlyWhenAccepted ==
  [][messages' # messages =>
       /\ Appends
       /\ Exists(Appended.task_id)
       /\ Status(tasks[Appended.task_id]) = "accepted"
       /\ Party(Appended.sender_id, Appended.task_id)]_vars

\* C12 as amended: a message request passes its tests only when the task
\* it read exists, is Accepted and has the sender as a party; a message is
\* stored only by a request that passed them, for that sender and task, and
\* the task has by then been accepted (it may have been completed or
\* canceled since); any other step leaves the messages table unchanged.
C12_MessageOnlyIfAcceptedWhenRead ==
  [][/\ \A u \in UserIds, t \in TaskIds :
          PostAdmitted(u, t) =>
            Exists(t) /\ Status(tasks[t]) = "accepted" /\ Party(u, t)
     /\ messages' # messages =>
          /\ Appends
          /\ \E op \in {"text", "image"} :
               BagIn(Request(op, Appended.sender_id, Appended.task_id, "commit"),
                     pending)
          /\ Exists(Appended.task_id)
          /\ tasks[Appended.task_id].accepted_time_ns # NULL]_vars

\* a message is stored and another message request has been refused
C12_Witness ==
  /\ Len(messages) > 0
  /\ \E r \in TestFailures : r.op \in {"text", "image"}

\* C13: get_messages_for_task of a user who is neither requester nor
\* executor of an existing task answers Unauthorized (403) with no message,
\* whatever the task's state; of a party it succeeds in every state.
C13_ListMessagesPartiesOnly ==
  \A u \in UserIds, t \in 1..Len(tasks), start \in Starts, end \in Ends :
    (end = NoEnd \/ start <= end) =>
      IF Party(u, t)
      THEN GetMessages(u, t, start, end).status_code = 200
      ELSE /\ GetMessages(u, t, start, end).status_code = 403
           /\ GetMessages(u, t, start, end).body = << >>

\* C14: transitions are one-way: an executor once set never changes, and a
\* task whose status is Completed or Canceled keeps that status.
C14_TransitionsOneWay ==
  [][\A i \in 1..Len(tasks) :
       /\ tasks[i].executed_by_id # NULL =>
            tasks'[i].executed_by_id = tasks[i].executed_by_id
       /\ Status(tasks[i]) \in {"completed", "canceled"} =>
            Status(tasks'[i]) = Status(tasks[i])]_vars

\* C15: cancel_task called by the requester on an Unassigned task fails
\* with InvalidTransition (400), and the task stays Unassigned.  (A task
\* that is Unassigned now was Unassigned when the call was made.)
C15_CancelUnassignedIsInvalidTransition ==
  \A r \in DOMAIN responses :
    (/\ r.op = "cancel" /\ Exists(r.task_id)
     /\ Status(tasks[r.task_id]) = "unassigned"
     /\ r.user = tasks[r.task_id].requested_by_id)
    => r.status_code = 400

\* C16: the payment capture is invoked at most once for a task, however
\* the complete_task calls on it interleave.
C16_CaptureAtMostOnce == \A t \in TaskIds : captures[t] <= 1

\* C17: no capture has been invoked for a task that has canceled_time set.
C17_NoCaptureForCanceled ==
  \A t \in 1..Len(tasks) : tasks[t].canceled_time_ns # NULL => captures[t] = 0

\* C18: accepted_time is set exactly when the executor is, and a task with
\* completed_time or canceled_time set has accepted_time set.
C18_AcceptedIffExecutor ==
  \A i \in 1..Len(tasks) :
    /\ tasks[i].accepted_time_ns # NULL <=> tasks[i].executed_by_id # NULL
    /\ (tasks[i].completed_time_ns # NULL \/ tasks[i].canceled_time_ns # NULL)
         => tasks[i].accepted_time_ns # NULL

\* a task accepted in this run has reached a terminal state
C18_Witness ==
  \E i \in 1..Len(tasks) :
    /\ Succeeded("accept", i) # {}
    /\ tasks[i].completed_time_ns # NULL \/ tasks[i].canceled_time_ns # NULL

\* C19: get_available_tasks with status filter s returns exactly the tasks,
\* not of a requester the caller has blocked and within the page, whose
\* derived status is s; so no task is returned for two status filters.
C19_ListTasksByDerivedStatus ==
  \A u \in UserIds, s \in Statuses, skip \in Skips, limit \in Limits :
    LET Derived(i) == Status(tasks[i]) = s /\ ~Blocked(u, i)
    IN ListTasks(u, s, NULL, NULL, skip, limit)
         = Limit(Offset(SelectSeq(Ids(Len(tasks)), Derived), skip), limit)

\* C20: for a party and a range 0 <= start <= end, get_messages_for_task
\* returns the task's messages at positions start..end-1 of its log (none
\* for an empty range), and with no end all messages from start on.
C20_ListMessagesSlice ==
  \A u \in UserIds, t \in 1..Len(tasks), start \in Starts, end \in Ends :
    (Party(u, t) /\ (end = NoEnd \/ start <= end)) =>
      LET log == MessagesOf(t)
          first == Min(start, Len(log)) + 1
          last == IF end = NoEnd THEN Len(log) ELSE Min(end, Len(log))
      IN GetMessages(u, t, start, end).body
           = [k \in 1..(IF last < first THEN 0 ELSE last - first + 1) |->
                log[first + k - 1]]

====
